---------------------------- MODULE Spec2Model ----------------------------
(***************************************************************************)
(* A model of the moody template engine (src/src/moody/parser.py): the     *)
(* scanner `tokenize`, the recursive macro-driven parser (`ParserRun`,     *)
(* `Parser.compile`, `if_macro`, `for_macro`), the name binder `Name`, and *)
(* the renderer (`Template.render`, the nodes' `render` methods).          *)
(*                                                                         *)
(* Text is modelled as a sequence of one-character strings, so that the    *)
(* regular expressions of the source are computed on characters.          *)
(***************************************************************************)
EXTENDS Integers, Sequences, FiniteSets, TLC

(***************************************************************************)
(* Characters and text helpers                                             *)
(***************************************************************************)
NL == "\n"
SP == " "

\* Python's \s, restricted to the characters of the model's alphabets.
IsSpace(c) == c \in {SP, NL}

Letters ==
    { "a", "b", "c", "d", "e", "f", "g", "h", "i", "j", "k", "l", "m",
      "n", "o", "p", "q", "r", "s", "t", "u", "v", "w", "x", "y", "z",
      "A", "B", "C", "D", "E", "F", "G", "H", "I", "J", "K", "L", "M",
      "N", "O", "P", "Q", "R", "S", "T", "U", "V", "W", "X", "Y", "Z",
      "_" }
Digits == {"0", "1", "2", "3", "4", "5", "6", "7", "8", "9"}

\* s[i..j], empty when j < i (Python's s[i-1:j]).
Slice(s, i, j) == IF j < i THEN <<>> ELSE SubSeq(s, i, j)

\* Does text p occur in s at position i (1-based)?
At(s, i, p) ==
    /\ i >= 1
    /\ i + Len(p) - 1 <= Len(s)
    /\ \A k \in 1..Len(p) : s[i + k - 1] = p[k]

\* str.strip() for the whitespace of the model.
RECURSIVE LStrip(_)
LStrip(s) == IF s # <<>> /\ IsSpace(Head(s)) THEN LStrip(Tail(s)) ELSE s
RECURSIVE RStrip(_)
RStrip(s) ==
    IF s # <<>> /\ IsSpace(s[Len(s)]) THEN RStrip(Slice(s, 1, Len(s) - 1)) ELSE s
Strip(s) == RStrip(LStrip(s))

\* The first position >= i of s that holds no whitespace (Len(s)+1 if none):
\* where a greedy \s* started at i stops.
RECURSIVE SkipSpace(_, _)
SkipSpace(s, i) ==
    IF i <= Len(s) /\ IsSpace(s[i]) THEN SkipSpace(s, i + 1) ELSE i

(***************************************************************************)
(* The scanner: RE_TOKEN and tokenize (parser.py 208-229)                  *)
(***************************************************************************)
NoMatch == [found |-> FALSE, start |-> 0, end |-> 0, kind |-> "none", group |-> <<>>]

\* `{#.+?#}` tried at position i: "{#", at least one character other than a
\* line feed, lazily, then the first "#}" that follows.  `end` is the position
\* after the match.
CommentAt(line, i) ==
    LET ends == { j \in (i + 3)..(Len(line) - 1) :
                     /\ At(line, j, <<"#", "}">>)
                     /\ \A p \in (i + 2)..(j - 1) : line[p] # NL }
    IN  IF At(line, i, <<"{", "#">>) /\ ends # {}
        THEN LET j == CHOOSE e \in ends : \A f \in ends : e <= f
             IN  [found |-> TRUE, start |-> i, end |-> j + 2,
                  kind |-> "comment", group |-> <<>>]
        ELSE NoMatch

\* `open \s*(.*?)\s* close` tried at position i, for the expression and the
\* tag alternative.  The greedy \s* takes the whole run of whitespace, the
\* lazy group stops at the first `close` that follows, and the second \s*
\* takes the whitespace in front of it back out of the group: the group is the
\* trimmed inner text.  `.` does not match a line feed.
RegionAt(line, i, open, close, kind) ==
    LET gs == SkipSpace(line, i + 2)
        ends == { e \in gs..(Len(line) - 1) : At(line, e, close) }
    IN  IF At(line, i, open) /\ ends # {}
        THEN LET e == CHOOSE x \in ends : \A y \in ends : x <= y
                 grp == RStrip(Slice(line, gs, e - 1))
             IN  IF \A p \in 1..Len(grp) : grp[p] # NL
                 THEN [found |-> TRUE, start |-> i, end |-> e + 2,
                       kind |-> kind, group |-> grp]
                 ELSE NoMatch
        ELSE NoMatch

\* RE_TOKEN matched at position i: the alternatives in the order of the
\* pattern, the first that matches wins.
MatchAt(line, i) ==
    LET c == CommentAt(line, i)
        x == RegionAt(line, i, <<"{", "{">>, <<"}", "}">>, "expression")
        m == RegionAt(line, i, <<"{", "%">>, <<"%", "}">>, "macro")
    IN  IF c.found THEN c ELSE IF x.found THEN x ELSE m

\* The next match of RE_TOKEN.finditer at or after position index.
RECURSIVE Search(_, _)
Search(line, index) ==
    IF index > Len(line) THEN NoMatch
    ELSE LET m == MatchAt(line, index)
         IN  IF m.found THEN m ELSE Search(line, index + 1)

Token(lineno, type, contents) ==
    [lineno |-> lineno, type |-> type, contents |-> contents]

\* The tokens one match yields (parser.py 217-225): the text in front of it
\* when there is some, then the expression or the macro token when its group
\* is truthy, that is non-empty.
MatchTokens(line, lineno, index, m) ==
    (IF m.start > index
        THEN <<Token(lineno, "STRING", Slice(line, index, m.start - 1))>>
        ELSE <<>>)
    \o (IF m.kind = "expression" /\ m.group # <<>>
           THEN <<Token(lineno, "EXPRESSION", m.group)>>
        ELSE IF m.kind = "macro" /\ m.group # <<>>
           THEN <<Token(lineno, "MACRO", m.group)>>
        ELSE <<>>)

\* The body of tokenize's outer loop for one line, from position index on.
RECURSIVE ScanLine(_, _, _)
ScanLine(line, lineno, index) ==
    LET m == Search(line, index)
    IN  IF m.found
        THEN MatchTokens(line, lineno, index, m) \o ScanLine(line, lineno, m.end)
        ELSE <<Token(lineno, "STRING", Slice(line, index, Len(line)))>>

\* str.splitlines(True): the lines with their terminator kept; no line for
\* the empty string, and none after a final terminator.
RECURSIVE SplitLines(_)
SplitLines(s) ==
    IF s = <<>> THEN <<>>
    ELSE LET nls == { i \in 1..Len(s) : s[i] = NL }
         IN  IF nls = {} THEN <<s>>
             ELSE LET i == CHOOSE x \in nls : \A y \in nls : x <= y
                  IN  <<Slice(s, 1, i)>> \o SplitLines(Slice(s, i + 1, Len(s)))

RECURSIVE TokenizeLines(_, _)
TokenizeLines(lines, lineno) ==
    IF lines = <<>> THEN <<>>
    ELSE ScanLine(Head(lines), lineno, 1) \o TokenizeLines(Tail(lines), lineno + 1)

tokenize(template) == TokenizeLines(SplitLines(template), 1)


(***************************************************************************)
(* Errors.  An exception is its class, its message and, for TemplateError, *)
(* the attributes template_name and template_lineno (parser.py 9-27).  A   *)
(* message is a format string and the texts formatted into it.             *)
(***************************************************************************)
NoName == <<>>
NoLine == 0
NoError ==
    [kind |-> "none", fmt |-> "", args |-> <<>>,
     template_name |-> NoName, template_lineno |-> NoLine]

\* An exception of a class that carries no template attributes.
Raise(kind, fmt, args) ==
    [kind |-> kind, fmt |-> fmt, args |-> args,
     template_name |-> NoName, template_lineno |-> NoLine]

\* TemplateError(str(ex), template_name, template_lineno): parser.py 18-22.
TemplateError(ex, template_name, template_lineno) ==
    [kind |-> "TemplateError", fmt |-> ex.fmt, args |-> ex.args,
     template_name |-> template_name, template_lineno |-> template_lineno]

\* The handler without its `except TemplateError: raise` clause: an error
\* that passes through an enclosing node is tagged again, with that node's
\* line.
Wrap_every_exception(ex, template_name, lineno) ==
    TemplateError(ex, template_name, lineno)

\* `except TemplateError: raise / except Exception as ex: raise
\* TemplateError(str(ex), name, lineno)` (parser.py 178-181 and 272-275).
Wrap(ex, template_name, lineno) ==
    IF ex.kind = "TemplateError" THEN ex
    ELSE TemplateError(ex, template_name, lineno)

(***************************************************************************)
(* Expressions (parser.py 102-114).  The engine hands the text to Python's *)
(* compile and eval.  The model covers the fragment its templates use: an  *)
(* identifier, read from the parameters, and a decimal literal.            *)
(***************************************************************************)
PyKeywords ==
    { <<"i", "f">>, <<"i", "n">>, <<"i", "s">>, <<"o", "r">>, <<"a", "s">>,
      <<"f", "o", "r">>, <<"n", "o", "t">>, <<"a", "n", "d">>, <<"d", "e", "f">>,
      <<"d", "e", "l">>, <<"t", "r", "y">>, <<"e", "l", "s", "e">>,
      <<"e", "l", "i", "f">>, <<"p", "a", "s", "s">>, <<"f", "r", "o", "m">> }

IsIdentifier(s) ==
    /\ s # <<>>
    /\ s[1] \in Letters
    /\ \A i \in 2..Len(s) : s[i] \in Letters \cup Digits

\* RE_NAME = "^[a-zA-Z_][a-zA-Z_0-9]*$" (parser.py 57); `$` also matches in
\* front of a final line feed.
RE_NAME(s) ==
    \/ IsIdentifier(s)
    \/ s # <<>> /\ s[Len(s)] = NL /\ IsIdentifier(Slice(s, 1, Len(s) - 1))

IsIntLiteral(s) ==
    /\ s # <<>>
    /\ \A i \in 1..Len(s) : s[i] \in Digits
    /\ (Len(s) > 1 => s[1] # "0")

ExprKind(s) ==
    IF s \in PyKeywords THEN "keyword"
    ELSE IF IsIdentifier(s) THEN "name"
    ELSE IF IsIntLiteral(s) THEN "int"
    ELSE "other"

NoExpression == [source |-> <<>>, form |-> "none"]

\* Expression.__init__ (parser.py 108-110): the compiled expression, or the
\* SyntaxError compile raises.  Python words the message by the text
\* ("invalid syntax", "'{' was never closed", ..); the model keeps one
\* wording, and no property reads it.
Expression(expression) ==
    IF ExprKind(expression) \in {"name", "int"}
    THEN [ok |-> TRUE, err |-> NoError,
          value |-> [source |-> expression, form |-> ExprKind(expression)]]
    ELSE [ok |-> FALSE, err |-> Raise("SyntaxError", "invalid syntax", <<>>),
          value |-> NoExpression]

(***************************************************************************)
(* Name.__init__ (parser.py 65-79)                                         *)
(***************************************************************************)
\* str.split(","): the segments between the commas.
RECURSIVE SplitComma(_)
SplitComma(s) ==
    LET cs == { i \in 1..Len(s) : s[i] = "," }
    IN  IF cs = {} THEN <<s>>
        ELSE LET i == CHOOSE x \in cs : \A y \in cs : x <= y
             IN  <<Slice(s, 1, i - 1)>> \o SplitComma(Slice(s, i + 1, Len(s)))

NoNameTarget == [names |-> <<>>, is_expandable |-> FALSE]

\* The first of the names that RE_NAME rejects, 0 if none (the loop of
\* parser.py 77-79).
FirstInvalid(names) ==
    LET bad == { i \in 1..Len(names) : ~RE_NAME(names[i]) }
    IN  IF bad = {} THEN 0 ELSE CHOOSE i \in bad : \A j \in bad : i <= j

ValidateNames(names, is_expandable) ==
    LET b == FirstInvalid(names)
    IN  IF b = 0
        THEN [ok |-> TRUE, err |-> NoError,
              value |-> [names |-> names, is_expandable |-> is_expandable]]
        ELSE [ok |-> FALSE,
              err |-> Raise("ValueError",
                  "{!r} is not a valid variable name. Only letters, numbers and undescores are allowed.",
                  <<names[b]>>),
              value |-> NoNameTarget]

\* Line 71 reads `names.pop()`: `names` is no variable of __init__ (the list
\* is self.names), so a trailing empty segment raises NameError.
NameInit(name) ==
    IF \E i \in 1..Len(name) : name[i] = ","
    THEN LET names == [i \in 1..Len(SplitComma(name)) |-> Strip(SplitComma(name)[i])]
         IN  IF names[Len(names)] = <<>>
             THEN [ok |-> FALSE,
                   err |-> Raise("NameError", "name 'names' is not defined", <<>>),
                   value |-> NoNameTarget]
             ELSE ValidateNames(names, TRUE)
    ELSE ValidateNames(<<name>>, FALSE)


(***************************************************************************)
(* Nodes and fragments (parser.py 117-181, 336-345, 385-395).  Every node  *)
(* is a record of the same shape; the fields its class does not have hold  *)
(* the None values below.  An optional fragment (IfNode.else_block) is a   *)
(* sequence of no or one fragment.  A node gets its lineno from the parser *)
(* after its construction (parser.py 270).                                 *)
(***************************************************************************)
TemplateFragment(nodes, name) == [nodes |-> nodes, name |-> name]

StringNode(value) ==
    [type |-> "StringNode", lineno |-> NoLine, value |-> value,
     expression |-> NoExpression, clauses |-> <<>>, else_block |-> <<>>,
     name |-> NoNameTarget, block |-> <<>>]

ExpressionNode(expression) ==
    [type |-> "ExpressionNode", lineno |-> NoLine, value |-> <<>>,
     expression |-> expression, clauses |-> <<>>, else_block |-> <<>>,
     name |-> NoNameTarget, block |-> <<>>]

IfNode(clauses, else_block) ==
    [type |-> "IfNode", lineno |-> NoLine, value |-> <<>>,
     expression |-> NoExpression, clauses |-> clauses, else_block |-> else_block,
     name |-> NoNameTarget, block |-> <<>>]

ForNode(name, expression, block) ==
    [type |-> "ForNode", lineno |-> NoLine, value |-> <<>>,
     expression |-> expression, clauses |-> <<>>, else_block |-> <<>>,
     name |-> name, block |-> <<block>>]

(***************************************************************************)
(* The macros' regular expressions                                         *)
(***************************************************************************)
kw_if == <<"i", "f">>
kw_elif == <<"e", "l", "i", "f">>
kw_else == <<"e", "l", "s", "e">>
kw_endif == <<"e", "n", "d", "i", "f">>
kw_for == <<"f", "o", "r">>
kw_in == <<"i", "n">>
kw_endfor == <<"e", "n", "d", "f", "o", "r">>

\* `$`: the end of the text, or the place in front of a final line feed.
\* The text that `(.+?)$` captures from position i on: at least one
\* character, none of them a line feed.
TailGroup(token, i) ==
    LET last == IF token # <<>> /\ token[Len(token)] = NL
                THEN Len(token) - 1 ELSE Len(token)
        grp == Slice(token, i, last)
    IN  IF grp # <<>> /\ \A p \in 1..Len(grp) : grp[p] # NL
        THEN <<grp>> ELSE <<>>

\* "^if\s+(.+?)$" (parser.py 359): the groups of the match, <<>> for no match.
\* \s+ is greedy and gives characters back only when the group would be empty.
RE_IF(token) ==
    LET gs == SkipSpace(token, 3)
        cands == { k \in 3..gs : k > 3 /\ TailGroup(token, k) # <<>>
                                 /\ \A p \in 3..(k - 1) : IsSpace(token[p]) }
    IN  IF At(token, 1, kw_if) /\ cands # {}
        THEN LET k == CHOOSE x \in cands : \A y \in cands : x >= y
             IN  <<TailGroup(token, k)[1]>>
        ELSE <<>>

\* RE_IF_CLAUSE = "^(elif) (.+?)$|^(else)$|^(endif)$" (parser.py 357): which
\* alternative matched, and the elif expression.
NoClause == [matched |-> FALSE, flag |-> "none", elif_expression |-> <<>>]
RE_IF_CLAUSE(token) ==
    LET body == IF token # <<>> /\ token[Len(token)] = NL
                THEN Slice(token, 1, Len(token) - 1) ELSE token
    IN  IF At(token, 1, kw_elif \o <<SP>>) /\ TailGroup(token, 6) # <<>>
        THEN [matched |-> TRUE, flag |-> "elif",
              elif_expression |-> TailGroup(token, 6)[1]]
        ELSE IF body = kw_else
        THEN [matched |-> TRUE, flag |-> "else", elif_expression |-> <<>>]
        ELSE IF body = kw_endif
        THEN [matched |-> TRUE, flag |-> "endif", elif_expression |-> <<>>]
        ELSE NoClause

\* RE_ENDFOR = "^endfor$" (parser.py 405).
RE_ENDFOR(token) ==
    LET body == IF token # <<>> /\ token[Len(token)] = NL
                THEN Slice(token, 1, Len(token) - 1) ELSE token
    IN  IF body = kw_endfor
        THEN [matched |-> TRUE, flag |-> "endfor", elif_expression |-> <<>>]
        ELSE NoClause

\* "^for\s+(.+?)\s+in\s+(.+?)$" (parser.py 407): <<name, expression>>, or <<>>
\* for no match.  A candidate <<a, b, c>> is: the name is token[a..b], the
\* expression starts at c.  The regex engine prefers the longest first \s+
\* (the largest a), then the shortest name (the smallest b), then the longest
\* last \s+ (the largest c).
RE_FOR(token) ==
    LET n == Len(token)
        cands == { t \in (4..n) \X (4..n) \X (4..n) :
                     /\ t[1] > 4 /\ t[1] <= t[2]
                     /\ \A p \in 4..(t[1] - 1) : IsSpace(token[p])
                     /\ \A p \in t[1]..t[2] : token[p] # NL
                     /\ LET w == SkipSpace(token, t[2] + 1)
                        IN  /\ w > t[2] + 1
                            /\ At(token, w, kw_in)
                            /\ t[3] > w + 2
                            /\ \A p \in (w + 2)..(t[3] - 1) : IsSpace(token[p])
                     /\ TailGroup(token, t[3]) # <<>> }
        Better(s, t) ==
            \/ s[1] > t[1]
            \/ s[1] = t[1] /\ s[2] < t[2]
            \/ s[1] = t[1] /\ s[2] = t[2] /\ s[3] >= t[3]
    IN  IF At(token, 1, kw_for) /\ n >= 4 /\ IsSpace(token[4]) /\ cands # {}
        THEN LET t == CHOOSE x \in cands : \A y \in cands : Better(x, y)
             IN  <<Slice(token, t[1], t[2]), TailGroup(token, t[3])[1]>>
        ELSE <<>>


(***************************************************************************)
(* The parser (parser.py 232-320, 359-382, 407-411).  ParserRun.tokens is  *)
(* one generator that the nested calls share; here it is the token         *)
(* sequence and the position of the next token, which every call returns.  *)
(* None, for a token's contents, is the empty text: the code only tests    *)
(* its truth, and no MACRO token is empty.                                 *)
(***************************************************************************)
None == <<>>
NoNode == StringNode(<<>>)

ChunkFail(err, pos) ==
    [ok |-> FALSE, err |-> err, pos |-> pos, lineno |-> NoLine,
     token_contents |-> None, nodes |-> <<>>]
ChunkReturn(lineno, token_contents, nodes, pos) ==
    [ok |-> TRUE, err |-> NoError, pos |-> pos, lineno |-> lineno,
     token_contents |-> token_contents, nodes |-> nodes]

MacroFail(err, pos) ==
    [ok |-> FALSE, err |-> err, matched |-> TRUE, pos |-> pos, node |-> NoNode]
MacroDeclines(pos) ==
    [ok |-> TRUE, err |-> NoError, matched |-> FALSE, pos |-> pos, node |-> NoNode]
MacroReturn(node, pos) ==
    [ok |-> TRUE, err |-> NoError, matched |-> TRUE, pos |-> pos, node |-> node]

BlockFail(err, pos) ==
    [ok |-> FALSE, err |-> err, pos |-> pos, match |-> NoClause,
     block |-> TemplateFragment(<<>>, NoName)]
BlockReturn(match, block, pos) ==
    [ok |-> TRUE, err |-> NoError, pos |-> pos, match |-> match, block |-> block]

\* The set of default macros (parser.py 415), in the order they are tried.
DEFAULT_MACROS == <<"if_macro", "for_macro">>

RECURSIVE parse_template_chunk_loop(_, _, _, _, _)
RECURSIVE parse_block(_, _, _, _, _, _)
RECURSIVE if_macro_loop(_, _, _, _, _, _, _)
RECURSIVE for_macro(_, _, _, _)
RECURSIVE try_macros(_, _, _, _, _)

\* The error parse_block raises for a tag its regex does not match (parser.py
\* 296).  The format string has one positional field and format() is given
\* only the keyword `token`, so the call itself raises IndexError and no
\* TemplateSyntaxError is built.
UnrecognizedInBlock(token_contents) ==
    Raise("IndexError", "Replacement index 0 out of range for positional args tuple", <<>>)

\* ParserRun.parse_block after its call of parse_template_chunk, which
\* returned or raised c (parser.py 288-296); regex is "RE_IF_CLAUSE" or
\* "RE_ENDFOR".
parse_block_match(c, name, start_tag, end_tag, regex) ==
    IF ~c.ok THEN BlockFail(c.err, c.pos)
    ELSE IF c.token_contents = None
    THEN BlockFail(Raise("TemplateSyntaxError",
             "{% {} %} tag could not find a corresponding {% {} }.",
             <<start_tag, end_tag>>), c.pos)
    ELSE LET match == IF regex = "RE_IF_CLAUSE"
                      THEN RE_IF_CLAUSE(c.token_contents)
                      ELSE RE_ENDFOR(c.token_contents)
         IN  IF match.matched
             THEN BlockReturn(match, TemplateFragment(c.nodes, name), c.pos)
             ELSE BlockFail(UnrecognizedInBlock(c.token_contents), c.pos)

\* ParserRun.parse_block (parser.py 279-296)
parse_block(tokens, name, pos, start_tag, end_tag, regex) ==
    parse_block_match(parse_template_chunk_loop(tokens, name, pos, <<>>, NoLine),
                      name, start_tag, end_tag, regex)

\* One turn of the `while True` loop of if_macro after its call of
\* parse_block, which returned or raised b (parser.py 367-381); e is
\* Expression(expression).
if_macro_clause(b, e, tokens, name, expression, clauses, else_tag, else_block) ==
    IF ~b.ok THEN MacroFail(b.err, b.pos)
    ELSE IF ~else_tag /\ ~e.ok THEN MacroFail(e.err, b.pos)
    ELSE LET clauses2 == IF else_tag THEN clauses
                         ELSE Append(clauses, [expression |-> e.value, block |-> b.block])
             else_block2 == IF else_tag THEN <<b.block>> ELSE else_block
         IN  IF b.match.flag = "endif"
             THEN MacroReturn(IfNode(clauses2, else_block2), b.pos)
             ELSE IF else_tag
             THEN MacroFail(Raise("TemplateSyntaxError",
                      IF b.match.flag = "elif"
                      THEN "{{% elif %}} tag cannot come after {{% else %}}."
                      ELSE "Only one {{% else %}} tag is allowed per {{% if %}} macro.",
                      <<>>), b.pos)
             ELSE if_macro_loop(tokens, name, b.pos,
                      IF b.match.flag = "elif" THEN b.match.elif_expression
                      ELSE expression,
                      clauses2, b.match.flag = "else", else_block2)

\* The `while True` loop of if_macro (parser.py 365-382).
if_macro_loop(tokens, name, pos, expression, clauses, else_tag, else_block) ==
    if_macro_clause(parse_block(tokens, name, pos, kw_if, kw_endif, "RE_IF_CLAUSE"),
                    Expression(expression),
                    tokens, name, expression, clauses, else_tag, else_block)

\* if_macro called with the groups of its regex, <<>> when the token does not
\* match (the wrapper of regex_macro, parser.py 323-333).
if_macro_groups(groups, tokens, name, pos) ==
    IF groups = <<>> THEN MacroDeclines(pos)
    ELSE if_macro_loop(tokens, name, pos, groups[1], <<>>, FALSE, <<>>)

\* if_macro behind its regex_macro wrapper (parser.py 359-382).
if_macro(tokens, name, pos, token) ==
    if_macro_groups(RE_IF(token), tokens, name, pos)

\* for_macro after its call of parse_block, which returned or raised b
\* (parser.py 411); nm is Name(name) and e is Expression(expression).
for_macro_node(b, nm, e) ==
    IF ~b.ok THEN MacroFail(b.err, b.pos)
    ELSE IF ~nm.ok THEN MacroFail(nm.err, b.pos)
    ELSE IF ~e.ok THEN MacroFail(e.err, b.pos)
    ELSE MacroReturn(ForNode(nm.value, e.value, b.block), b.pos)

\* for_macro called with the groups of its regex, <<>> when the token does
\* not match (the wrapper of regex_macro, parser.py 323-333).
for_macro_groups(groups, tokens, name, pos) ==
    IF groups = <<>> THEN MacroDeclines(pos)
    ELSE for_macro_node(parse_block(tokens, name, pos, kw_for, kw_endfor, "RE_ENDFOR"),
                        NameInit(groups[1]), Expression(groups[2]))

\* for_macro behind its regex_macro wrapper (parser.py 407-411).
for_macro(tokens, name, pos, token) ==
    for_macro_groups(RE_FOR(token), tokens, name, pos)

\* The loop over self.macros (parser.py 260-264) after the call of a macro,
\* which returned, declined or raised r: the first macro that returns a node
\* wins.
try_next_macro(r, tokens, name, pos, token, macros) ==
    IF ~r.ok \/ r.matched THEN r
    ELSE try_macros(tokens, name, pos, token, Tail(macros))

\* The loop over self.macros (parser.py 260-264).
try_macros(tokens, name, pos, token, macros) ==
    IF macros = <<>> THEN MacroDeclines(pos)
    ELSE try_next_macro(
             IF Head(macros) = "if_macro"
             THEN if_macro(tokens, name, pos, token)
             ELSE for_macro(tokens, name, pos, token),
             tokens, name, pos, token, macros)

\* The names a function reads without having bound them: Python raises
\* UnboundLocalError.  parse_template_chunk returns `lineno` after its loop
\* (parser.py 277), which the loop binds only if there was a token.
UnboundLineno ==
    Raise("UnboundLocalError",
          "cannot access local variable 'lineno' where it is not associated with a value", <<>>)

\* What the body of parse_template_chunk's loop does with one token: it makes
\* a node ("node"), returns for a tag no macro recognises ("return"), or
\* raises ("raise").
TokenNode(node, next) ==
    [does |-> "node", node |-> node, next |-> next, err |-> NoError]
TokenRaise(err, next) ==
    [does |-> "raise", node |-> NoNode, next |-> next, err |-> err]
TokenReturn(next) ==
    [does |-> "return", node |-> NoNode, next |-> next, err |-> NoError]

\* An EXPRESSION token (parser.py 256-257); e is Expression(token_contents).
expression_token(e, next) ==
    IF e.ok THEN TokenNode(ExpressionNode(e.value), next)
    ELSE TokenRaise(e.err, next)

\* A MACRO token (parser.py 258-266), after the macros were tried: r.
macro_token(r, next) ==
    IF ~r.ok THEN TokenRaise(r.err, r.pos)
    ELSE IF ~r.matched THEN TokenReturn(next)
    ELSE TokenNode(r.node, r.pos)

\* The body of the loop for the token at pos (parser.py 253-275).
parse_token(tokens, name, pos) ==
    CASE tokens[pos].type = "STRING" ->
            TokenNode(StringNode(tokens[pos].contents), pos + 1)
      [] tokens[pos].type = "EXPRESSION" ->
            expression_token(Expression(tokens[pos].contents), pos + 1)
      [] OTHER ->
            macro_token(try_macros(tokens, name, pos + 1, tokens[pos].contents,
                                   DEFAULT_MACROS), pos + 1)

\* The loop of parse_template_chunk after the token at pos was handled: t.
parse_template_chunk_next(t, tokens, name, pos, nodes) ==
    CASE t.does = "node" ->
            parse_template_chunk_loop(tokens, name, t.next,
                Append(nodes, [t.node EXCEPT !.lineno = tokens[pos].lineno]),
                tokens[pos].lineno)
      [] t.does = "return" ->
            ChunkReturn(tokens[pos].lineno, tokens[pos].contents, nodes, t.next)
      [] OTHER ->
            ChunkFail(Wrap(t.err, name, tokens[pos].lineno), t.next)

\* ParserRun.parse_template_chunk (parser.py 244-277) from token pos on, with
\* the nodes made so far and the loop variable lineno (NoLine: not bound).
parse_template_chunk_loop(tokens, name, pos, nodes, lineno) ==
    IF pos > Len(tokens)
    THEN IF lineno = NoLine THEN ChunkFail(UnboundLineno, pos)
         ELSE ChunkReturn(lineno, None, nodes, pos)
    ELSE parse_template_chunk_next(parse_token(tokens, name, pos),
                                   tokens, name, pos, nodes)

parse_template_chunk(tokens, name, pos) ==
    parse_template_chunk_loop(tokens, name, pos, <<>>, NoLine)

\* Parser.compile after its call of parse_template_chunk, which returned or
\* raised c (parser.py 318-320).
NoTemplate == [nodes |-> <<>>, name |-> NoName, default_params |-> <<>>]
compile_chunk(c, name, default_params) ==
    IF ~c.ok THEN [ok |-> FALSE, err |-> c.err, value |-> NoTemplate]
    ELSE IF c.token_contents # None
    THEN [ok |-> FALSE,
          err |-> Raise("TemplateSyntaxError", "{% {} %} is not a recognized tag.",
                        <<c.token_contents>>),
          value |-> NoTemplate]
    ELSE [ok |-> TRUE, err |-> NoError,
          value |-> [nodes |-> c.nodes, name |-> name,
                     default_params |-> default_params]]

\* Parser.compile of the default parser (parser.py 309-320): the compiled
\* Template, or the exception raised.
compile(template, name, default_params) ==
    compile_chunk(parse_template_chunk(tokenize(template), name, 1),
                  name, default_params)

(***************************************************************************)
(* Values.  A parameter is an int or a list of values; both are records of *)
(* one shape.  A mapping of parameters (dict) is a function from names     *)
(* (texts) to values.                                                      *)
(***************************************************************************)
IntV(n) == [k |-> "int", n |-> n, items |-> <<>>]
ListV(items) == [k |-> "list", n |-> 0, items |-> items]

\* Python's truth of a value: a number other than 0, a list that is not empty.
Truthy(v) == IF v.k = "int" THEN v.n # 0 ELSE v.items # <<>>

DigitChars == <<"0", "1", "2", "3", "4", "5", "6", "7", "8", "9">>
RECURSIVE StrNat(_)
StrNat(n) ==
    IF n < 10 THEN <<DigitChars[n + 1]>>
    ELSE StrNat(n \div 10) \o <<DigitChars[(n % 10) + 1]>>

RECURSIVE ParseNat(_)
ParseNat(s) ==
    IF s = <<>> THEN 0
    ELSE 10 * ParseNat(Slice(s, 1, Len(s) - 1))
         + ((CHOOSE d \in 1..10 : DigitChars[d] = s[Len(s)]) - 1)

\* str(value): the decimal digits of an int (the model's are not negative),
\* "[" + ", ".join(repr of the items) + "]" of a list.
RECURSIVE Str(_)
RECURSIVE StrItems(_)
StrItems(items) ==
    IF items = <<>> THEN <<>>
    ELSE IF Len(items) = 1 THEN Str(items[1])
    ELSE Str(items[1]) \o <<",", SP>> \o StrItems(Tail(items))
Str(v) == IF v.k = "int" THEN StrNat(v.n) ELSE <<"[">> \o StrItems(v.items) \o <<"]">>

EmptyParams == [x \in {} |-> IntV(0)]

\* dict.update / d[key] = value: the mapping with key bound to value.
Bind(params, key, value) ==
    [x \in DOMAIN params \cup {key} |-> IF x = key THEN value ELSE params[x]]

\* dict.update(other)
Update(params, other) ==
    [x \in DOMAIN params \cup DOMAIN other |->
        IF x \in DOMAIN other THEN other[x] ELSE params[x]]

(***************************************************************************)
(* The render-time state (parser.py 30-54)                                 *)
(***************************************************************************)
Context(params, buffer) == [params |-> params, buffer |-> buffer]

\* Context.read: "".join(self.buffer).
RECURSIVE Join(_)
Join(buffer) == IF buffer = <<>> THEN <<>> ELSE Head(buffer) \o Join(Tail(buffer))
read(context) == Join(context.buffer)

\* Expression.eval (parser.py 112-114): eval(compiled, {}, context.params).
\* The identifiers of the model's templates are not names of Python builtins.
eval(expression, context) ==
    IF expression.form = "int"
    THEN [ok |-> TRUE, err |-> NoError, value |-> IntV(ParseNat(expression.source))]
    ELSE IF expression.source \in DOMAIN context.params
    THEN [ok |-> TRUE, err |-> NoError, value |-> context.params[expression.source]]
    ELSE [ok |-> FALSE,
          err |-> Raise("NameError", "name '{}' is not defined", <<expression.source>>),
          value |-> IntV(0)]

NotIterable == Raise("TypeError", "'int' object is not iterable", <<>>)

\* The effect of a render step on the context: done, or the exception raised
\* and the context as the exception left it.
Done(context) == [ok |-> TRUE, err |-> NoError, context |-> context]
Failed(err, context) == [ok |-> FALSE, err |-> err, context |-> context]

\* Name.set without the check of lines 92-97 that no value is left over.
RECURSIVE SetNames_no_surplus_check(_, _, _, _)
SetNames_no_surplus_check(names, i, rest, context) ==
    IF i > Len(names) THEN Done(context)
    ELSE IF rest = <<>>
    THEN Failed(Raise("ValueError", "Not enough values to unpack.", <<>>), context)
    ELSE SetNames_no_surplus_check(names, i + 1, Tail(rest),
             [context EXCEPT !.params = Bind(@, names[i], Head(rest))])

\* The loop of Name.set over self.names (parser.py 86-97), from name i on,
\* with the items the iterator has left.
RECURSIVE SetNames(_, _, _, _)
SetNames(names, i, rest, context) ==
    IF i > Len(names)
    THEN IF rest = <<>> THEN Done(context)
         ELSE Failed(Raise("ValueError", "Need more that {} values to unpack.",
                           <<StrNat(Len(names))>>), context)
    ELSE IF rest = <<>>
    THEN Failed(Raise("ValueError", "Not enough values to unpack.", <<>>), context)
    ELSE SetNames(names, i + 1, Tail(rest),
                  [context EXCEPT !.params = Bind(@, names[i], Head(rest))])

\* Name.set (parser.py 81-99)
NameSet(name, context, value) ==
    IF name.is_expandable
    THEN IF value.k # "list" THEN Failed(NotIterable, context)
         ELSE SetNames(name.names, 1, value.items, context)
    ELSE Done([context EXCEPT !.params = Bind(@, name.names[1], value)])

RECURSIVE render_to_context(_, _, _)
RECURSIVE render(_, _)
RECURSIVE IfNode_render(_, _, _)
RECURSIVE ForNode_render(_, _, _)

\* StringNode.render (parser.py 138-140)
StringNode_render(node, context) ==
    Done([context EXCEPT !.buffer = Append(@, node.value)])

\* ExpressionNode.render with the expression evaluated: v (parser.py 152-159).
\* No parameter mapping of the model binds "__autoescape__", so the value is
\* written as it is.
ExpressionNode_write(v, context) ==
    IF ~v.ok THEN Failed(v.err, context)
    ELSE Done([context EXCEPT !.buffer = Append(@, Str(v.value))])

\* ExpressionNode.render (parser.py 151-159)
ExpressionNode_render(node, context) ==
    ExpressionNode_write(eval(node.expression, context), context)

\* IfNode.render without the `return` of line 352: after the body of a truthy
\* clause the loop goes on to the next clause.
RECURSIVE IfNode_render_no_return(_, _, _)
IfNode_render_no_return(node, i, context) ==
    IF i > Len(node.clauses)
    THEN IF node.else_block # <<>>
         THEN render_to_context(node.else_block[1], 1, context)
         ELSE Done(context)
    ELSE LET v == eval(node.clauses[i].expression, context)
         IN  IF ~v.ok THEN Failed(v.err, context)
             ELSE IF Truthy(v.value)
             THEN LET b == render_to_context(node.clauses[i].block, 1, context)
                  IN  IF ~b.ok THEN b
                      ELSE IfNode_render_no_return(node, i + 1, b.context)
             ELSE IfNode_render_no_return(node, i + 1, context)

\* IfNode.render (parser.py 347-354), from clause i on.
IfNode_render(node, i, context) ==
    IF i > Len(node.clauses)
    THEN IF node.else_block # <<>>
         THEN render_to_context(node.else_block[1], 1, context)
         ELSE Done(context)
    ELSE LET v == eval(node.clauses[i].expression, context)
         IN  IF ~v.ok THEN Failed(v.err, context)
             ELSE IF Truthy(v.value)
             THEN render_to_context(node.clauses[i].block, 1, context)
             ELSE IfNode_render(node, i + 1, context)

\* The loop of ForNode.render after the block was rendered for an item: b
\* (parser.py 400-402).
ForNode_next(b, node, items) ==
    IF ~b.ok THEN b ELSE ForNode_render(node, Tail(items), b.context)

\* The body of the loop of ForNode.render after self.name.set: s
\* (parser.py 401-402).
ForNode_body(s, node, items) ==
    IF ~s.ok THEN s
    ELSE ForNode_next(render_to_context(node.block[1], 1, s.context), node, items)

\* The loop of ForNode.render over the items (parser.py 400-402).
ForNode_render(node, items, context) ==
    IF items = <<>> THEN Done(context)
    ELSE ForNode_body(NameSet(node.name, context, Head(items)), node, items)

\* ForNode.render with its expression evaluated: v (parser.py 399-400).
ForNode_iterate(v, node, context) ==
    IF ~v.ok THEN Failed(v.err, context)
    ELSE IF v.value.k # "list" THEN Failed(NotIterable, context)
    ELSE ForNode_render(node, v.value.items, context)

\* Node.render, by the node's class; ForNode.render is parser.py 397-402.
render(node, context) ==
    CASE node.type = "StringNode" -> StringNode_render(node, context)
      [] node.type = "ExpressionNode" -> ExpressionNode_render(node, context)
      [] node.type = "IfNode" -> IfNode_render(node, 1, context)
      [] OTHER -> ForNode_iterate(eval(node.expression, context), node, context)

\* TemplateFragment._render_to_context after the render of node i, which
\* returned or raised r (parser.py 175-181).
render_to_context_next(r, fragment, i) ==
    IF ~r.ok
    THEN Failed(Wrap(r.err, fragment.name, fragment.nodes[i].lineno), r.context)
    ELSE render_to_context(fragment, i + 1, r.context)

\* TemplateFragment._render_to_context (parser.py 173-181), from node i on.
render_to_context(fragment, i, context) ==
    IF i > Len(fragment.nodes) THEN Done(context)
    ELSE render_to_context_next(render(fragment.nodes[i], context), fragment, i)

\* What Template.render gives its caller once _render_to_context has ended
\* with r (parser.py 204-205).  `context` is the call's Context when it
\* ended, which the caller never sees.
Template_outcome(r) ==
    IF r.ok
    THEN [status |-> "returned", value |-> read(r.context), err |-> NoError,
          context |-> r.context]
    ELSE [status |-> "raised", value |-> None, err |-> r.err,
          context |-> r.context]

\* Template.render (parser.py 196-205): the string returned, or the exception
\* raised.
Template_render(template, params) ==
    Template_outcome(
        render_to_context(TemplateFragment(template.nodes, template.name), 1,
                          Context(Update(template.default_params, params), <<>>)))

(***************************************************************************)
(* The state: the text handed to tokenize or compile, what each returned,  *)
(* and the render calls made on the compiled template: one followed as a   *)
(* whole (result), and calls followed node by node (calls), whose          *)
(* parameter mappings are objects (dicts) that a call may share with the   *)
(* template.                                                               *)
(***************************************************************************)
VARIABLES
    source,     \* the text passed to tokenize or compile
    tokens,     \* what tokenize(source) yielded
    template,   \* what compile(source, name, default_params) returned or raised
    result,     \* what template.render(**params) returned or raised
    calls,      \* the render calls in progress, by call
    dicts       \* the dict objects: the template's _default_params, and the
                \* context_params of each call

vars == <<source, tokens, template, result, calls, dicts>>

\* The calls of render that are followed node by node.
MaxCalls == 2
CallIds == 1..MaxCalls

\* The dict object that Template.__init__ keeps as self._default_params
\* (parser.py 194); the dict made by call r of render is object r.
DefaultsId == 0
DictIds == {DefaultsId} \cup CallIds

\* A frame of a call: _render_to_context at node i of a fragment, or the loop
\* of ForNode.render with the items that are left.
NoFragment == TemplateFragment(<<>>, NoName)
FragmentFrame(fragment) ==
    [kind |-> "fragment", fragment |-> fragment, i |-> 1, node |-> NoNode, items |-> <<>>]
ForFrame(node, items) ==
    [kind |-> "for", fragment |-> NoFragment, i |-> 0, node |-> node, items |-> items]

IdleCall ==
    [pc |-> "idle", args |-> EmptyParams, params |-> DefaultsId, buffer |-> <<>>,
     stack |-> <<>>, value |-> None, err |-> NoError]

NoTokens == [status |-> "none", value |-> <<>>]
NotCompiled == [status |-> "none", value |-> NoTemplate, err |-> NoError]
NoResult ==
    [status |-> "none", params |-> EmptyParams, value |-> None, err |-> NoError,
     context |-> Context(EmptyParams, <<>>)]

Init ==
    /\ source = <<>>
    /\ tokens = NoTokens
    /\ template = NotCompiled
    /\ result = NoResult
    /\ calls = [r \in CallIds |-> IdleCall]
    /\ dicts = [d \in DictIds |-> EmptyParams]

\* Nothing has been scanned or compiled yet: a behaviour follows one call of
\* tokenize, or one compiled template and the calls of its render.
Fresh == tokens.status = "none" /\ template.status = "none"

\* What the caller of compile holds: the Template, or the exception.
Compiled(c) ==
    [status |-> IF c.ok THEN "compiled" ELSE "raised", value |-> c.value, err |-> c.err]

\* What the caller of render holds: the string, or the exception.
Rendered(r, params) ==
    [status |-> r.status, params |-> params, value |-> r.value,
     err |-> r.err, context |-> r.context]

\* list(tokenize(src))
Tokenize(src) ==
    /\ source' = src
    /\ tokens' = [status |-> "done", value |-> tokenize(src)]
    /\ UNCHANGED <<template, result, calls, dicts>>

\* moody.compile(src, name, default_params)
Compile(src, name, default_params) ==
    /\ source' = src
    /\ template' = Compiled(compile(src, name, default_params))
    /\ dicts' = IF template'.status = "compiled"
                THEN [dicts EXCEPT ![DefaultsId] = default_params]
                ELSE dicts
    /\ UNCHANGED <<tokens, result, calls>>

\* template.render(**params), the whole call
Render(params) ==
    /\ template.status = "compiled"
    /\ result.status = "none"
    /\ result' = Rendered(Template_render(template.value, params), params)
    /\ UNCHANGED <<source, tokens, template, calls, dicts>>

(***************************************************************************)
(* Inputs                                                                  *)
(***************************************************************************)
\* All texts of at most n characters of alphabet.
Texts(alphabet, n) == UNION { [1..k -> alphabet] : k \in 0..n }

Tag(text) == <<"{", "%", SP>> \o text \o <<SP, "%", "}">>
Expr(text) == <<"{", "{", SP>> \o text \o <<SP, "}", "}">>

RECURSIVE Concat(_)
Concat(seq) == IF seq = <<>> THEN <<>> ELSE Head(seq) \o Concat(Tail(seq))

\* The scanner's inputs: every text of at most MaxSrcLen characters.
MaxSrcLen == 5
ScanAlphabet == {"{", "}", "%", "#", SP, "a", NL}
ScanSources == Texts(ScanAlphabet, MaxSrcLen)

DefaultName == <<"<", "s", "t", "r", "i", "n", "g", ">">>

ScanTokenize == Fresh /\ \E src \in ScanSources : Tokenize(src)
ScanCompile == Fresh /\ \E src \in ScanSources : Compile(src, DefaultName, EmptyParams)
ScanRender == \E params \in {EmptyParams, Bind(EmptyParams, <<"a">>, IntV(1))} : Render(params)

ScanNext == ScanTokenize \/ ScanCompile \/ ScanRender

SpecScan == Init /\ [][ScanNext]_vars


(***************************************************************************)
(* Templates written a statement a line: literal text, an interpolation    *)
(* or a tag, each followed by a line feed.                                 *)
(***************************************************************************)
n_x == <<"x">>
n_a == <<"a">>
n_xs == <<"x", "s">>
kw_bogus == <<"b", "o", "g", "u", "s">>

st_text == <<"A">>
st_x == Expr(n_x)
st_a == Expr(n_a)
st_if == Tag(kw_if \o <<SP>> \o n_x)
st_else == Tag(kw_else)
st_endif == Tag(kw_endif)
st_for == Tag(kw_for \o <<SP>> \o n_a \o <<SP>> \o kw_in \o <<SP>> \o n_xs)
st_for_comma == Tag(kw_for \o <<SP>> \o n_a \o <<",", SP>> \o kw_in \o <<SP>> \o n_xs)
st_endfor == Tag(kw_endfor)
st_bogus == Tag(kw_bogus)

Statements ==
    { st_text, st_x, st_a, st_if, st_else, st_endif, st_for, st_for_comma,
      st_endfor, st_bogus }

\* The text of a sequence of statements, a line each.
RECURSIVE LinesText(_)
LinesText(stmts) ==
    IF stmts = <<>> THEN <<>>
    ELSE Head(stmts) \o <<NL>> \o LinesText(Tail(stmts))

MaxLines == 4
Programs(statements, n) == UNION { [1..k -> statements] : k \in 0..n }
Sources == { LinesText(p) : p \in Programs(Statements, MaxLines) }

\* The parameters of a render call: x is 0 or 1, xs is [] or [1, 2], and a is
\* unbound or 7.
ParamSets ==
    { Update(px, pa) :
        px \in { Bind(Bind(EmptyParams, n_x, IntV(b)), n_xs, ListV(l)) :
                   b \in {0, 1}, l \in {<<>>, <<IntV(1), IntV(2)>>} },
        pa \in { EmptyParams, Bind(EmptyParams, n_a, IntV(7)) } }

DoCompile == Fresh /\ \E src \in Sources : Compile(src, DefaultName, EmptyParams)
DoRender == \E params \in ParamSets : Render(params)

Next == DoCompile \/ DoRender

Spec == Init /\ [][Next]_vars


(***************************************************************************)
(* Properties of compile and render on the statement-a-line templates      *)
(***************************************************************************)
Range(f) == { f[i] : i \in DOMAIN f }

\* The statements of the source: its lines without their line feed.
StatementsOf(text) ==
    LET lines == SplitLines(text)
    IN  [i \in 1..Len(lines) |-> RStrip(lines[i])]

\* Statements that neither end a block nor fail on their own: text, an
\* interpolation, and the tags that open an `if` or a `for`.
Openers == {st_if, st_for}
Plain == {st_text, st_x, st_a}

\* The parameters a render call starts from: the defaults, overridden by the
\* caller's (parser.py 199-200).
InitialParams == Update(template.value.default_params, result.params)

\* C1: a name bound or rebound inside the body of an `if` or a `for` (the loop
\* variable in particular) is not visible after the block, so when a render
\* call has returned, the mapping of the outermost scope is what it was when
\* the call began: every binding the engine makes is made inside a block.
C1_BlockScoping ==
    result.status = "returned" => result.context.params = InitialParams

\* C5: when the first tag that no macro recognises and that is no expected
\* terminator is `bogus`, on line b (at the top level or inside the body of an
\* `if` or a `for`), compile raises a TemplateSyntaxError that names the tag
\* and carries line b.
C5_UnknownTag ==
    LET stmts == StatementsOf(source)
    IN  \A b \in 1..Len(stmts) :
            ( /\ template.status # "none"
              /\ stmts[b] = st_bogus
              /\ \A i \in 1..(b - 1) : stmts[i] \in Plain \cup Openers )
            => /\ template.status = "raised"
               /\ template.err.kind = "TemplateSyntaxError"
               /\ kw_bogus \in Range(template.err.args)
               /\ template.err.template_lineno = b

\* The keyword of the tag that opens a block.
OpenerKeyword(stmt) == IF stmt = st_if THEN kw_if ELSE kw_for

\* C6: when an `if` or a `for` is opened and the input ends before its
\* terminator, compile raises a TemplateSyntaxError (not the TemplateError of
\* render time) whose message names the opening tag.
C6_UnterminatedBlock ==
    LET stmts == StatementsOf(source)
        opened == { i \in 1..Len(stmts) : stmts[i] \in Openers }
    IN  ( /\ template.status # "none"
          /\ opened # {}
          /\ \A i \in 1..Len(stmts) : stmts[i] \in Plain \cup Openers )
        => LET last == CHOOSE i \in opened : \A j \in opened : i >= j
           IN  /\ template.status = "raised"
               /\ template.err.kind = "TemplateSyntaxError"
               /\ OpenerKeyword(stmts[last]) \in Range(template.err.args)

\* C9: the target `a,` of a `for` is a tuple target holding the one name `a`:
\* a template of a `for a, in xs` line, a body of plain statements and an
\* `endfor` line compiles, and its ForNode's Name holds exactly <<a>>.
C9_TrailingComma ==
    LET stmts == StatementsOf(source)
        n == Len(stmts)
    IN  ( /\ template.status # "none"
          /\ n >= 2
          /\ stmts[1] = st_for_comma
          /\ stmts[n] = st_endfor
          /\ \A i \in 2..(n - 1) : stmts[i] \in Plain )
        => /\ template.status = "compiled"
           /\ template.value.nodes[1].type = "ForNode"
           /\ template.value.nodes[1].name = [names |-> <<n_a>>, is_expandable |-> TRUE]


(***************************************************************************)
(* Properties of the scanner and of literal templates                      *)
(***************************************************************************)
\* The text holds no comment, expression or tag region: RE_TOKEN matches
\* nowhere in any of its lines.
NoRegion(text) ==
    \A i \in 1..Len(SplitLines(text)) : ~Search(SplitLines(text)[i], 1).found

\* C3: a source with no comment, expression or tag region (the empty string
\* included) compiles, and render returns it unchanged, whatever the
\* parameters.
C3_LiteralIdentity ==
    NoRegion(source) =>
        /\ template.status # "none" => template.status = "compiled"
        /\ result.status # "none" =>
              result.status = "returned" /\ result.value = source

\* What the scanner is to emit for one match: nothing for a comment, one
\* token holding the trimmed inner text for an expression or a tag region
\* whatever that text is, after the text in front of the region if there is
\* some.
RegionTokens(line, lineno, index, m) ==
    (IF m.start > index
        THEN <<Token(lineno, "STRING", Slice(line, index, m.start - 1))>>
        ELSE <<>>)
    \o (IF m.kind = "expression" THEN <<Token(lineno, "EXPRESSION", m.group)>>
        ELSE IF m.kind = "macro" THEN <<Token(lineno, "MACRO", m.group)>>
        ELSE <<>>)

RECURSIVE LineTokens(_, _, _)
LineTokens(line, lineno, index) ==
    LET m == Search(line, index)
    IN  IF m.found
        THEN RegionTokens(line, lineno, index, m) \o LineTokens(line, lineno, m.end)
        ELSE <<Token(lineno, "STRING", Slice(line, index, Len(line)))>>

RECURSIVE TextTokens(_, _)
TextTokens(lines, lineno) ==
    IF lines = <<>> THEN <<>>
    ELSE LineTokens(Head(lines), lineno, 1) \o TextTokens(Tail(lines), lineno + 1)

\* C10: for every line, left to right and with the line's number: nothing for
\* a comment, one EXPRESSION token for every expression region and one MACRO
\* token for every tag region (also when the trimmed inner text is empty), a
\* STRING token for each non-empty stretch of text in front of a region, and
\* a final STRING token for the rest of the line.
C10_TokenEmission ==
    tokens.status = "done" => tokens.value = TextTokens(SplitLines(source), 1)


(***************************************************************************)
(* Conditionals: templates of one `if` with its `elif` clauses and an      *)
(* optional `else`, between two literals.  Clause i tests the parameter    *)
(* c<i> and its body is the text B<i>; the body of `else` is E.  Each tag  *)
(* is followed by sep, which is empty or a line feed.                      *)
(***************************************************************************)
MaxClauses == 3

CondVar(i) == <<"c", DigitChars[i + 1]>>
BodyText(i) == <<"B", DigitChars[i + 1]>>
ElseText == <<"E">>
Before == <<"P">>
After == <<"Q">>

IfShapes ==
    [n : 1..MaxClauses, else : BOOLEAN, sep : {<<>>, <<NL>>}]

RECURSIVE ElifClauses(_, _, _)
ElifClauses(i, n, sep) ==
    IF i > n THEN <<>>
    ELSE Tag(kw_elif \o <<SP>> \o CondVar(i)) \o sep \o BodyText(i)
         \o ElifClauses(i + 1, n, sep)

IfSource(shape) ==
    Before
    \o Tag(kw_if \o <<SP>> \o CondVar(1)) \o shape.sep \o BodyText(1)
    \o ElifClauses(2, shape.n, shape.sep)
    \o (IF shape.else THEN Tag(kw_else) \o shape.sep \o ElseText ELSE <<>>)
    \o Tag(kw_endif) \o shape.sep \o After

IfSources == { IfSource(shape) : shape \in IfShapes }

\* What a condition's parameter may be: unbound (no entry), or one of these.
CondValues == {IntV(0), IntV(1), ListV(<<>>), ListV(<<IntV(0)>>)}

\* The mappings that bind some of c1..cn.
RECURSIVE CondParams(_)
CondParams(n) ==
    IF n = 0 THEN {EmptyParams}
    ELSE LET rest == CondParams(n - 1)
         IN  rest \cup { Bind(p, CondVar(n), v) : p \in rest, v \in CondValues }

IfCompile == Fresh /\ \E src \in IfSources : Compile(src, DefaultName, EmptyParams)
IfRender == \E params \in CondParams(MaxClauses) : Render(params)

IfNext == IfCompile \/ IfRender

SpecIf == Init /\ [][IfNext]_vars

\* The clauses that decide the selection under params: those whose condition
\* is unbound or truthy.
Deciding(n, params) ==
    { i \in 1..n : CondVar(i) \notin DOMAIN params \/ Truthy(params[CondVar(i)]) }

\* C2: rendering evaluates the conditions in order and renders exactly one
\* body: that of the first clause whose condition is truthy (the conditions
\* after it are not evaluated: they may be unbound), else the `else` body if
\* there is one, else nothing.  A condition that is reached and is unbound
\* makes the call raise.
C2_ConditionalSelection ==
    \A shape \in IfShapes :
        (source = IfSource(shape) /\ result.status # "none") =>
            LET d == Deciding(shape.n, result.params)
                first == CHOOSE i \in d : \A j \in d : i <= j
            IN  IF d = {}
                THEN /\ result.status = "returned"
                     /\ result.value =
                           Before \o (IF shape.else THEN shape.sep \o ElseText ELSE <<>>)
                           \o shape.sep \o After
                ELSE IF CondVar(first) \in DOMAIN result.params
                THEN /\ result.status = "returned"
                     /\ result.value =
                           Before \o shape.sep \o BodyText(first) \o shape.sep \o After
                ELSE /\ result.status = "raised"
                     /\ result.err.args = <<CondVar(first)>>

\* The second of three clauses is the first truthy one, the third condition
\* is unbound and there is an `else`: only B2 is rendered.
C2_Witness ==
    /\ source = IfSource([n |-> 3, else |-> TRUE, sep |-> <<>>])
    /\ result.status = "returned"
    /\ result.value = Before \o BodyText(2) \o After
    /\ ~Truthy(result.params[CondVar(1)])
    /\ CondVar(3) \notin DOMAIN result.params


(***************************************************************************)
(* Tuple targets: on its second line the template loops `for v1, .., vk in *)
(* ps` and writes every name of the target, each followed by "-", and ";"  *)
(* after each item.  Item j of ps is a list of some length L, holding the  *)
(* numbers 10*j+1 .. 10*j+L.                                               *)
(***************************************************************************)
MaxNames == 3
MaxItems == 3

n_ps == <<"p", "s">>
TargetVar(i) == <<"v", DigitChars[i + 1]>>

RECURSIVE TargetText(_, _)
TargetText(i, k) ==
    IF i = k THEN TargetVar(i)
    ELSE TargetVar(i) \o <<",", SP>> \o TargetText(i + 1, k)

RECURSIVE WriteNames(_, _)
WriteNames(i, k) ==
    IF i > k THEN <<>> ELSE Expr(TargetVar(i)) \o <<"-">> \o WriteNames(i + 1, k)

ForSource(k) ==
    Before \o <<NL>>
    \o Tag(kw_for \o <<SP>> \o TargetText(1, k) \o <<SP>> \o kw_in \o <<SP>> \o n_ps)
    \o WriteNames(1, k) \o <<";">>
    \o Tag(kw_endfor) \o After

TargetSizes == 2..MaxNames
ForSources == { ForSource(k) : k \in TargetSizes }

ItemOf(j, len) == ListV([i \in 1..len |-> IntV(10 * j + i)])
ItemLengths == UNION { [1..m -> 0..(MaxNames + 1)] : m \in 0..MaxItems }
PairsOf(lens) == ListV([j \in 1..Len(lens) |-> ItemOf(j, lens[j])])
ForParams == { Bind(EmptyParams, n_ps, PairsOf(lens)) : lens \in ItemLengths }

ForCompile == Fresh /\ \E src \in ForSources : Compile(src, DefaultName, EmptyParams)
ForRender == \E params \in ForParams : Render(params)

ForNext == ForCompile \/ ForRender

SpecFor == Init /\ [][ForNext]_vars

\* What the body writes for item j of a k-name target.
RECURSIVE ItemOutput(_, _, _)
ItemOutput(j, i, k) ==
    IF i > k THEN <<";">>
    ELSE StrNat(10 * j + i) \o <<"-">> \o ItemOutput(j, i + 1, k)

\* What the loop writes for the items 1..m.
RECURSIVE ItemsOutput(_, _)
ItemsOutput(m, k) ==
    IF m = 0 THEN <<>> ELSE ItemsOutput(m - 1, k) \o ItemOutput(m, 1, k)

n_u == <<"u">>
n_w == <<"w">>
st_u == Expr(n_u)
st_w == Expr(n_w)
st_if_w == Tag(kw_if \o <<SP>> \o n_w)

ErrStatements == { st_text, st_u, st_w, st_if, st_if_w, st_endif, st_for, st_endfor }

MaxErrLines == 4
ErrSources == { LinesText(p) : p \in Programs(ErrStatements, MaxErrLines) }

ErrNames == { DefaultName, <<"t">> }

\* x is 0 or 1; u is unbound or 5; w is unbound or 6; xs is unbound, the
\* number 3 or the list [1, 2].
ErrParams ==
    { Update(Update(Bind(EmptyParams, n_x, IntV(b)), pu), Update(pw, pxs)) :
        b \in {0, 1},
        pu \in { EmptyParams, Bind(EmptyParams, n_u, IntV(5)) },
        pw \in { EmptyParams, Bind(EmptyParams, n_w, IntV(6)) },
        pxs \in { EmptyParams, Bind(EmptyParams, n_xs, IntV(3)),
                  Bind(EmptyParams, n_xs, ListV(<<IntV(1), IntV(2)>>)) } }

ErrCompile ==
    Fresh /\ \E src \in ErrSources, name \in ErrNames : Compile(src, name, EmptyParams)
ErrRender == \E params \in ErrParams : Render(params)

ErrNext == ErrCompile \/ ErrRender

SpecErr == Init /\ [][ErrNext]_vars

\* The name a statement reads when its node is rendered, <<>> if none.
Reads(stmt) ==
    CASE stmt \in {st_u} -> n_u
      [] stmt \in {st_w, st_if_w} -> n_w
      [] stmt = st_if -> n_x
      [] stmt = st_for -> n_xs
      [] OTHER -> <<>>

\* What the lines before line n write when none of them is a tag: the text
\* or the value of the name read, and the end of the line.
RECURSIVE PlainOutput(_, _, _)
PlainOutput(stmts, n, params) ==
    IF n = 0 THEN <<>>
    ELSE PlainOutput(stmts, n - 1, params)
         \o (IF stmts[n] = st_text THEN st_text
             ELSE IF Reads(stmts[n]) \in DOMAIN params
             THEN Str(params[Reads(stmts[n])])
             ELSE <<"?">>)
         \o <<NL>>

ErrLine == result.err.template_lineno
ErrStatement == StatementsOf(source)[ErrLine]

\* C4: a render call that fails gives its caller the error and no string,
\* whatever was written before; the error is a TemplateError that carries
\* the template's name and the line of the node that raised: the statement
\* on that line is the one that read the unbound name the message names, or
\* the `for` whose value is not iterable, wherever it is nested, and never
\* an enclosing `if` or `for`.  Nothing is rendered after the failure: when
\* no tag precedes the failing line, the buffer holds what the lines before
\* it wrote, none of which failed.
C4_RenderFailure ==
    result.status = "raised" =>
        /\ result.value = None
        /\ result.err.kind = "TemplateError"
        /\ result.err.template_name = template.value.name
        /\ ErrLine \in 1..Len(StatementsOf(source))
        /\ \/ /\ Reads(ErrStatement) # <<>>
              /\ Reads(ErrStatement) \notin DOMAIN result.context.params
              /\ result.err.fmt = "name '{}' is not defined"
              /\ result.err.args = <<Reads(ErrStatement)>>
           \/ /\ ErrStatement = st_for
              /\ n_xs \in DOMAIN result.params
              /\ result.params[n_xs].k = "int"
              /\ result.err = TemplateError(NotIterable, template.value.name, ErrLine)
        /\ (\A i \in 1..(ErrLine - 1) : StatementsOf(source)[i] \in {st_text, st_u, st_w})
              => read(result.context)
                    = PlainOutput(StatementsOf(source), ErrLine - 1, InitialParams)

\* A call fails at {{ u }} in the body of a block that opened on the line
\* before, after text was written.
C4_Witness ==
    /\ result.status = "raised"
    /\ ErrLine >= 3
    /\ ErrStatement = st_u
    /\ StatementsOf(source)[ErrLine - 1] \in {st_if, st_for}
    /\ result.context.buffer # <<>>
    /\ template.value.name = <<"t">>


(***************************************************************************)
(* Render calls followed node by node.  A step of a call renders one       *)
(* StringNode or ExpressionNode, chooses the clause of an IfNode, starts   *)
(* the loop of a ForNode, binds the target of a loop to its next item, or  *)
(* leaves a fragment or a loop that is finished.  The steps of different   *)
(* calls interleave.                                                       *)
(***************************************************************************)
\* The first lines of Template.render without the copy() of line 199: the
\* context's params are the template's own dict.
context_params_no_copy(heap, r, params) ==
    [id |-> DefaultsId,
     dicts |-> [heap EXCEPT ![DefaultsId] = Update(@, params)]]

\* context_params = self._default_params.copy(); context_params.update(params)
\* (parser.py 199-200): the dict of the call's context, and the dicts after.
context_params(heap, r, params) ==
    [id |-> r,
     dicts |-> [heap EXCEPT ![r] = Update(heap[DefaultsId], params)]]

\* What a step does to its call: the frames, the buffer and the params of the
\* context afterwards, or the exception raised.
StepDone(stack, context) ==
    [ok |-> TRUE, err |-> NoError, stack |-> stack, context |-> context]
StepRaised(err, context) ==
    [ok |-> FALSE, err |-> err, stack |-> <<>>, context |-> context]

\* The frames once the top frame has ended: the loop of _render_to_context
\* below it goes on to its next node, a loop of ForNode.render to its next
\* item.
Resume(stack) ==
    IF stack = <<>> THEN stack
    ELSE IF stack[Len(stack)].kind = "fragment"
    THEN [stack EXCEPT ![Len(stack)].i = @ + 1]
    ELSE stack

\* The clause of an IfNode that IfNode.render chooses (parser.py 349-354),
\* from clause i on: its block, the else block, or none.
RECURSIVE IfNode_choose(_, _, _)
IfNode_choose(node, i, context) ==
    IF i > Len(node.clauses)
    THEN [ok |-> TRUE, err |-> NoError, block |-> node.else_block]
    ELSE LET v == eval(node.clauses[i].expression, context)
         IN  IF ~v.ok THEN [ok |-> FALSE, err |-> v.err, block |-> <<>>]
             ELSE IF Truthy(v.value)
             THEN [ok |-> TRUE, err |-> NoError, block |-> <<node.clauses[i].block>>]
             ELSE IfNode_choose(node, i + 1, context)

\* The step of a StringNode or ExpressionNode, rendered as r; top is the
\* frame of the fragment that holds the node (parser.py 175-181).
LeafStep(r, below, top) ==
    IF r.ok THEN StepDone(Append(below, [top EXCEPT !.i = @ + 1]), r.context)
    ELSE StepRaised(Wrap(r.err, top.fragment.name, top.fragment.nodes[top.i].lineno),
                    r.context)

\* The step of an IfNode whose clause was chosen: c.
IfStep(c, below, top, context) ==
    IF ~c.ok
    THEN StepRaised(Wrap(c.err, top.fragment.name, top.fragment.nodes[top.i].lineno),
                    context)
    ELSE IF c.block = <<>>
    THEN StepDone(Append(below, [top EXCEPT !.i = @ + 1]), context)
    ELSE StepDone(Append(Append(below, top), FragmentFrame(c.block[1])), context)

\* The step of a ForNode whose expression was evaluated: v (parser.py 399-400).
ForStep(v, below, top, context) ==
    IF ~v.ok
    THEN StepRaised(Wrap(v.err, top.fragment.name, top.fragment.nodes[top.i].lineno),
                    context)
    ELSE IF v.value.k # "list"
    THEN StepRaised(Wrap(NotIterable, top.fragment.name,
                         top.fragment.nodes[top.i].lineno), context)
    ELSE StepDone(Append(Append(below, top),
                         ForFrame(top.fragment.nodes[top.i], v.value.items)), context)

\* The step of a loop that has an item left, after self.name.set: s
\* (parser.py 401-402).  The ForNode is the node at which the fragment below
\* stands.
ItemStep(s, below, top) ==
    IF ~s.ok
    THEN StepRaised(Wrap(s.err, below[Len(below)].fragment.name, top.node.lineno),
                    s.context)
    ELSE StepDone(Append(Append(below, [top EXCEPT !.items = Tail(@)]),
                         FragmentFrame(top.node.block[1])), s.context)

\* The step of the frame top, above the frames below.
FrameStep(below, top, context) ==
    IF top.kind = "for"
    THEN IF top.items = <<>> THEN StepDone(Resume(below), context)
         ELSE ItemStep(NameSet(top.node.name, context, Head(top.items)), below, top)
    ELSE IF top.i > Len(top.fragment.nodes) THEN StepDone(Resume(below), context)
    ELSE CASE top.fragment.nodes[top.i].type = "StringNode" ->
                LeafStep(StringNode_render(top.fragment.nodes[top.i], context), below, top)
           [] top.fragment.nodes[top.i].type = "ExpressionNode" ->
                LeafStep(ExpressionNode_render(top.fragment.nodes[top.i], context),
                         below, top)
           [] top.fragment.nodes[top.i].type = "IfNode" ->
                IfStep(IfNode_choose(top.fragment.nodes[top.i], 1, context),
                       below, top, context)
           [] OTHER ->
                ForStep(eval(top.fragment.nodes[top.i].expression, context),
                        below, top, context)

\* The call after a step that ended as st: it goes on, it raises, or, with
\* no frame left, it returns context.read() (parser.py 204-205).
AfterStep(call, st) ==
    IF ~st.ok
    THEN [call EXCEPT !.pc = "raised", !.err = st.err, !.stack = <<>>,
                      !.buffer = st.context.buffer]
    ELSE IF st.stack = <<>>
    THEN [call EXCEPT !.pc = "returned", !.value = read(st.context), !.stack = <<>>,
                      !.buffer = st.context.buffer]
    ELSE [call EXCEPT !.stack = st.stack, !.buffer = st.context.buffer]

\* The step of a call whose context's params are the mapping params.
CallStep(call, params) ==
    FrameStep(Slice(call.stack, 1, Len(call.stack) - 1), call.stack[Len(call.stack)],
              Context(params, call.buffer))

\* The call that render(**params) begins with the dict cp.id as the params
\* of its context (parser.py 199-204).
BegunCall(cp, params) ==
    [pc |-> "running", args |-> params, params |-> cp.id, buffer |-> <<>>,
     stack |-> <<FragmentFrame(TemplateFragment(template.value.nodes,
                                                template.value.name))>>,
     value |-> None, err |-> NoError]

\* Call r of template.render(**params) begins: parser.py 199-202.
RenderBegin(r, params) ==
    /\ template.status = "compiled"
    /\ calls[r].pc = "idle"
    /\ calls' = [calls EXCEPT ![r] = BegunCall(context_params(dicts, r, params), params)]
    /\ dicts' = context_params(dicts, r, params).dicts
    /\ UNCHANGED <<source, tokens, template, result>>

\* Call r takes a step.
RenderStep(r) ==
    /\ calls[r].pc = "running"
    /\ calls' = [calls EXCEPT ![r] = AfterStep(@, CallStep(@, dicts[@.params]))]
    /\ dicts' = [dicts EXCEPT ![calls[r].params] =
                    CallStep(calls[r], dicts[calls[r].params]).context.params]
    /\ UNCHANGED <<source, tokens, template, result>>

(***************************************************************************)
(* Templates with default parameters.  Each is rendered by the calls of    *)
(* CallIds, with their own keyword arguments, step by step.                *)
(***************************************************************************)
n_y == <<"y">>

\* {% for x in xs %}{{ x }}{% endfor %}{{ x }}: the loop binds x, which is
\* also a default parameter.
LoopSource ==
    Tag(kw_for \o <<SP>> \o n_x \o <<SP>> \o kw_in \o <<SP>> \o n_xs)
    \o Expr(n_x) \o Tag(kw_endfor) \o Expr(n_x)

\* {% if x %}{{ y }}{% else %}B{% endif %}{{ x }}
BranchSource ==
    Tag(kw_if \o <<SP>> \o n_x) \o Expr(n_y) \o Tag(kw_else) \o <<"B">>
    \o Tag(kw_endif) \o Expr(n_x)

\* {{ x }}{% for y in xs %}{{ u }}{% endfor %}: u has no default.
UnboundSource ==
    Expr(n_x) \o Tag(kw_for \o <<SP>> \o n_y \o <<SP>> \o kw_in \o <<SP>> \o n_xs)
    \o Expr(n_u) \o Tag(kw_endfor)

ConcSources == { LoopSource, BranchSource, UnboundSource }

ConcDefaults ==
    { Bind(Bind(Bind(EmptyParams, n_x, IntV(b)), n_xs, ListV(<<IntV(1), IntV(2)>>)),
           n_y, IntV(3)) : b \in {0, 7} }

\* The keyword arguments of a call: none, x=9, or u=4 and xs=[5].
ConcParams ==
    { EmptyParams,
      Bind(EmptyParams, n_x, IntV(9)),
      Bind(Bind(EmptyParams, n_u, IntV(4)), n_xs, ListV(<<IntV(5)>>)) }

ConcCompile ==
    Fresh /\ \E src \in ConcSources, defaults \in ConcDefaults :
                 Compile(src, DefaultName, defaults)
ConcBegin == \E r \in CallIds, params \in ConcParams : RenderBegin(r, params)
ConcStep == \E r \in CallIds : RenderStep(r)

ConcNext == ConcCompile \/ ConcBegin \/ ConcStep

SpecConc == Init /\ [][ConcNext]_vars

\* C8: the calls of render on a compiled template do not disturb the
\* template or each other.  The template's default parameters stay what
\* they were when it was compiled, through every step of every call, and
\* however the steps of the calls interleave, a call that has ended returned
\* the string, or raised the error, that the same call gives when it runs
\* alone: the caller's parameters override the defaults in that call only.
C8_Reentrant ==
    template.status = "compiled" =>
        /\ dicts[DefaultsId] = template.value.default_params
        /\ \A r \in CallIds :
              calls[r].pc \in {"returned", "raised"} =>
                  /\ calls[r].pc = Template_render(template.value, calls[r].args).status
                  /\ calls[r].value = Template_render(template.value, calls[r].args).value
                  /\ calls[r].err = Template_render(template.value, calls[r].args).err

\* Call 1, given x=9, has returned "122" from the template whose loop binds
\* x, which is a default parameter too, while call 2, given nothing, is
\* inside the loop with x bound to the first item in its own dict; the
\* template's dict still binds x to 7.
C8_Witness ==
    /\ source = LoopSource
    /\ calls[1].pc = "returned"
    /\ calls[1].args = Bind(EmptyParams, n_x, IntV(9))
    /\ calls[1].value = <<"1", "2", "2">>
    /\ calls[2].pc = "running"
    /\ calls[2].args = EmptyParams
    /\ Len(calls[2].stack) = 3
    /\ dicts[2][n_x] = IntV(1)
    /\ dicts[DefaultsId][n_x] = IntV(7)


====
